---- MODULE Spec2Model ----
(***************************************************************************)
(* Model of the Meta Ads webhook: webhook_server.py (request handlers and  *)
(* send_clickup_comment) and meta_ads_analyzer.py (normalisation,          *)
(* objective inference, daily / weekly / consolidated analysis, report     *)
(* formatting).                                                            *)
(*                                                                         *)
(* Python values are tagged records: [t |-> "none"], [t |-> "bool", b],    *)
(* [t |-> "num", n], [t |-> "str", s], [t |-> "list", items],              *)
(* [t |-> "dict", d].  Text that the code inspects character by character  *)
(* (names, numeric strings, dates) is a sequence of one-character strings. *)
(* Numbers are fixed-point hundredths (1023 is 10.23), which is the        *)
(* precision the reports print (":.2f").                                   *)
(***************************************************************************)
EXTENDS Integers, Sequences, FiniteSets, TLC

VARIABLES
    received_data,   \* webhook_server.received_data: slug -> last stored payload
    client_mapping,  \* webhook_server.CLIENT_TASK_MAPPING: slug -> task ids
    req,             \* the request being handled (endpoint, slug, body, position)
    analysis_result, \* the handler's local analysis_result
    result,          \* the handler's local result (of send_clickup_comment)
    calls,           \* external calls issued by the current request, in order
    response,        \* the HTTP response of the current request
    fn               \* direct application of an analyzer function (pure-function specs)

vars == <<received_data, client_mapping, req, analysis_result, result, calls, response, fn>>

-----------------------------------------------------------------------------
(* Python values *)

NoneV == [t |-> "none"]
BoolV(b) == [t |-> "bool", b |-> b]
Num(n) == [t |-> "num", n |-> n]
Str(s) == [t |-> "str", s |-> s]
ListV(items) == [t |-> "list", items |-> items]
DictV(d) == [t |-> "dict", d |-> d]
EmptyDict == [k \in {} |-> NoneV]

\* Python truthiness (bool(x))
Truthy(x) ==
    CASE x.t = "none" -> FALSE
      [] x.t = "bool" -> x.b
      [] x.t = "num"  -> x.n # 0
      [] x.t = "str"  -> x.s # <<>>
      [] x.t = "list" -> x.items # <<>>
      [] x.t = "dict" -> DOMAIN x.d # {}

\* dict.get(key, default)
Get(d, key, default) == IF key \in DOMAIN d THEN d[key] ELSE default

-----------------------------------------------------------------------------
(* Text *)

UpperOf ==
    [c \in {"a","b","c","d","e","f","g","h","i","j","k","l","m","n","o","p",
            "q","r","s","t","u","v","w","x","y","z","á"} |->
        CASE c = "a" -> "A" [] c = "b" -> "B" [] c = "c" -> "C" [] c = "d" -> "D"
          [] c = "e" -> "E" [] c = "f" -> "F" [] c = "g" -> "G" [] c = "h" -> "H"
          [] c = "i" -> "I" [] c = "j" -> "J" [] c = "k" -> "K" [] c = "l" -> "L"
          [] c = "m" -> "M" [] c = "n" -> "N" [] c = "o" -> "O" [] c = "p" -> "P"
          [] c = "q" -> "Q" [] c = "r" -> "R" [] c = "s" -> "S" [] c = "t" -> "T"
          [] c = "u" -> "U" [] c = "v" -> "V" [] c = "w" -> "W" [] c = "x" -> "X"
          [] c = "y" -> "Y" [] c = "z" -> "Z" [] c = "á" -> "Á"]

\* str.upper()
Upper(s) == [i \in 1..Len(s) |-> IF s[i] \in DOMAIN UpperOf THEN UpperOf[s[i]] ELSE s[i]]

IsSpace(c) == c \in {" ", "\t", "\n"}

RECURSIVE LStrip(_)
LStrip(s) == IF s # <<>> /\ IsSpace(Head(s)) THEN LStrip(Tail(s)) ELSE s

RECURSIVE RStrip(_)
RStrip(s) == IF s # <<>> /\ IsSpace(s[Len(s)]) THEN RStrip(SubSeq(s, 1, Len(s) - 1)) ELSE s

\* str.strip()
Strip(s) == RStrip(LStrip(s))

\* "sub in s"
Contains(s, sub) ==
    \E i \in 0..(Len(s) - Len(sub)) : SubSeq(s, i + 1, i + Len(sub)) = sub

DigitVal(c) ==
    CASE c = "0" -> 0 [] c = "1" -> 1 [] c = "2" -> 2 [] c = "3" -> 3 [] c = "4" -> 4
      [] c = "5" -> 5 [] c = "6" -> 6 [] c = "7" -> 7 [] c = "8" -> 8 [] c = "9" -> 9

AllDigits(s) == \A i \in 1..Len(s) : s[i] \in {"0","1","2","3","4","5","6","7","8","9"}

RECURSIVE DigitsValue(_)
DigitsValue(s) ==
    IF s = <<>> THEN 0 ELSE 10 * DigitsValue(SubSeq(s, 1, Len(s) - 1)) + DigitVal(s[Len(s)])

\* position of the first c in s, 0 when there is none
FirstPos(s, c) == IF \E i \in 1..Len(s) : s[i] = c
                  THEN CHOOSE i \in 1..Len(s) : s[i] = c /\ \A j \in 1..(i - 1) : s[j] # c
                  ELSE 0

\* the magnitude digits.digits in hundredths; fractions are read to two
\* places, the batches below carry no more
Magnitude(ip, fp) == 100 * DigitsValue(ip) + DigitsValue(SubSeq(fp \o <<"0", "0">>, 1, 2))

ParseParts(neg, ip, fp) ==
    IF AllDigits(ip) /\ AllDigits(fp) /\ Len(ip) + Len(fp) > 0
    THEN [ok |-> TRUE, v |-> IF neg THEN 0 - Magnitude(ip, fp) ELSE Magnitude(ip, fp)]
    ELSE [ok |-> FALSE]

ParseUnsigned(neg, s) ==
    ParseParts(neg,
               IF FirstPos(s, ".") = 0 THEN s ELSE SubSeq(s, 1, FirstPos(s, ".") - 1),
               IF FirstPos(s, ".") = 0 THEN <<>> ELSE SubSeq(s, FirstPos(s, ".") + 1, Len(s)))

ParseStripped(s) ==
    ParseUnsigned(s # <<>> /\ Head(s) = "-",
                  IF s # <<>> /\ Head(s) \in {"-", "+"} THEN Tail(s) ELSE s)

\* float(str): surrounding whitespace, optional sign, digits, optional
\* fraction; the value in hundredths.  [ok |-> FALSE] is ValueError.
ParseFloat(raw) == ParseStripped(Strip(raw))

\* float(x): [ok |-> FALSE] is TypeError / ValueError
ToFloat(x) ==
    CASE x.t = "num"  -> [ok |-> TRUE, v |-> x.n]
      [] x.t = "bool" -> [ok |-> TRUE, v |-> IF x.b THEN 100 ELSE 0]
      [] x.t = "str"  -> ParseFloat(x.s)
      [] OTHER        -> [ok |-> FALSE]

\* int(f): truncation toward zero, on hundredths
TruncInt(v) == IF v >= 0 THEN (v \div 100) * 100 ELSE 0 - (((0 - v) \div 100) * 100)

\* try: return float(x) / except Exception: return float(default), default 0
_safe_float(x) == IF ToFloat(x).ok THEN ToFloat(x).v ELSE 0

\* try: return int(float(x)) / except Exception: return int(default), default 0
_safe_int(x) == IF ToFloat(x).ok THEN TruncInt(ToFloat(x).v) ELSE 0

\* a ratio num/den, den > 0 (the float quotient before it is printed)
Ratio(num, den) == [num |-> num, den |-> den]
RatioPositive(r) == r.num > 0

\* _compute_roas without the test of spend
_compute_roas_unguarded(spend, conversion_value) ==
    IF conversion_value > 0 THEN Ratio(conversion_value, spend) ELSE Ratio(0, 1)

_compute_roas(spend, conversion_value) ==
    IF spend > 0 /\ conversion_value > 0 THEN Ratio(conversion_value, spend) ELSE Ratio(0, 1)

-----------------------------------------------------------------------------
(* Dates *)

DaysInMonth(y, m) ==
    CASE m \in {4, 6, 9, 11} -> 30
      [] m = 2 -> IF (y % 4 = 0 /\ y % 100 # 0) \/ y % 400 = 0 THEN 29 ELSE 28
      [] OTHER -> 31

\* datetime(y, m, d): [ok |-> FALSE] is ValueError
DateOf(y, m, d) ==
    IF y >= 1 /\ m \in 1..12 /\ d \in 1..DaysInMonth(y, m)
    THEN [ok |-> TRUE, y |-> y, m |-> m, d |-> d]
    ELSE [ok |-> FALSE]

DateFromParts(ys, ms, ds) ==
    IF /\ Len(ys) = 4 /\ Len(ms) \in 1..2 /\ Len(ds) \in 1..2
       /\ AllDigits(ys) /\ AllDigits(ms) /\ AllDigits(ds)
    THEN DateOf(DigitsValue(ys), DigitsValue(ms), DigitsValue(ds))
    ELSE [ok |-> FALSE]

DateAfterYear(ys, rest) ==
    IF FirstPos(rest, "-") = 0 THEN [ok |-> FALSE]
    ELSE DateFromParts(ys, SubSeq(rest, 1, FirstPos(rest, "-") - 1),
                       SubSeq(rest, FirstPos(rest, "-") + 1, Len(rest)))

\* datetime.strptime(s, "%Y-%m-%d") on a str: [ok |-> FALSE] is ValueError
ParseDate(s) ==
    IF FirstPos(s, "-") = 0 THEN [ok |-> FALSE]
    ELSE DateAfterYear(SubSeq(s, 1, FirstPos(s, "-") - 1), SubSeq(s, FirstPos(s, "-") + 1, Len(s)))

\* ordering key of a parsed date (date.__lt__)
DateKey(dt) == dt.y * 10000 + dt.m * 100 + dt.d

\* strftime("%d/%m/%Y")
FormatDate(dt) == [k |-> "date", d |-> dt.d, m |-> dt.m, y |-> dt.y]

\* the try / except ValueError around strptime
ReportDateParsed(raw, p) ==
    IF p.ok THEN [raise |-> FALSE, report_date |-> FormatDate(p)]
    ELSE [raise |-> FALSE, report_date |-> [k |-> "invalid_format", raw |-> raw]]

ReportDateOf(raw) ==
    IF ~Truthy(raw)
    THEN [raise |-> FALSE, report_date |-> [k |-> "not_informed"]]
    ELSE IF raw.t # "str"
    THEN [raise |-> TRUE]
    ELSE ReportDateParsed(raw.s, ParseDate(raw.s))

\* resolve_report_dates(data)[0]; [raise |-> TRUE] is the TypeError that
\* strptime raises on a truthy value that is not a str
resolve_report_dates(data) == ReportDateOf(Get(data, "report_date", NoneV))

-----------------------------------------------------------------------------
(* Objective inference *)

T_CONVERSIONS == <<"C","O","N","V","E","R","S","I","O","N","S">>
T_MESSAGES == <<"M","E","S","S","A","G","E","S">>
T_TRAFFIC == <<"T","R","A","F","F","I","C">>
T_LEADS == <<"L","E","A","D","S">>
T_ENGAGEMENT == <<"E","N","G","A","G","E","M","E","N","T">>
T_UNKNOWN == <<"U","N","K","N","O","W","N">>

NameTokens_CONVERSIONS == {<<"C","O","N","V","E","R","S">>, <<"V","E","N","D">>, <<"P","U","R","C","H","A","S","E">>}
NameTokens_MESSAGES == {<<"M","E","N","S","A","G">>, <<"M","E","S","S","A","G","E">>, <<"W","H","A","T","S">>, <<"D","I","R","E","C","T">>}
NameTokens_TRAFFIC == {<<"T","R","Á","F","E","G">>, <<"T","R","A","F","E">>, <<"C","L","I","Q","U">>, <<"L","I","N","K">>}
NameTokens_LEADS == {<<"L","E","A","D">>, <<"C","A","D","A","S","T">>}
NameTokens_ENGAGEMENT == {<<"E","N","G","A","J">>, <<"E","N","G","A","G","E">>, <<"S","E","G","U","I","D">>, <<"P","E","R","F","I","L">>}

ResultKeys_CONVERSIONS == {"purchases", "purchase", "orders"}
ResultKeys_MESSAGES == {"messages_started", "messaging_conversations_started"}
ResultKeys_TRAFFIC == {"link_clicks", "landing_page_views", "outbound_clicks"}
ResultKeys_LEADS == {"leads"}
ResultKeys_ENGAGEMENT == {"post_engagements", "engagements", "profile_visits", "follows"}

HasToken(name, tokens) == \E tk \in tokens : Contains(name, tk)

\* the result-key groups of _infer_objective, tried in the order of the code
InferFromResults(rkeys) ==
    IF ResultKeys_CONVERSIONS \cap rkeys # {} THEN T_CONVERSIONS
    ELSE IF ResultKeys_MESSAGES \cap rkeys # {} THEN T_MESSAGES
    ELSE IF ResultKeys_TRAFFIC \cap rkeys # {} THEN T_TRAFFIC
    ELSE IF ResultKeys_LEADS \cap rkeys # {} THEN T_LEADS
    ELSE IF ResultKeys_ENGAGEMENT \cap rkeys # {} THEN T_ENGAGEMENT
    ELSE T_UNKNOWN

\* InferFromNameAndResults with the result keys consulted before the name
InferFromNameAndResults_results_first(name, rkeys) ==
    IF InferFromResults(rkeys) # T_UNKNOWN THEN InferFromResults(rkeys)
    ELSE IF HasToken(name, NameTokens_CONVERSIONS) THEN T_CONVERSIONS
    ELSE IF HasToken(name, NameTokens_MESSAGES) THEN T_MESSAGES
    ELSE IF HasToken(name, NameTokens_TRAFFIC) THEN T_TRAFFIC
    ELSE IF HasToken(name, NameTokens_LEADS) THEN T_LEADS
    ELSE IF HasToken(name, NameTokens_ENGAGEMENT) THEN T_ENGAGEMENT
    ELSE T_UNKNOWN

\* _infer_objective after the objective_field test: the name's token groups
\* in the order of the code's if statements, then the result-key groups
InferFromNameAndResults(name, rkeys) ==
    IF HasToken(name, NameTokens_CONVERSIONS) THEN T_CONVERSIONS
    ELSE IF HasToken(name, NameTokens_MESSAGES) THEN T_MESSAGES
    ELSE IF HasToken(name, NameTokens_TRAFFIC) THEN T_TRAFFIC
    ELSE IF HasToken(name, NameTokens_LEADS) THEN T_LEADS
    ELSE IF HasToken(name, NameTokens_ENGAGEMENT) THEN T_ENGAGEMENT
    ELSE InferFromResults(rkeys)

\* _infer_objective with the test of objective_field moved after the name
\* and result-key groups
_infer_objective_name_first(campaign_name, objective_field, results) ==
    IF Truthy(campaign_name) /\ campaign_name.t # "str"
    THEN [raise |-> TRUE]
    ELSE IF Truthy(results) /\ results.t # "dict"
    THEN [raise |-> TRUE]
    ELSE IF objective_field # <<>>
            /\ InferFromNameAndResults(IF Truthy(campaign_name) THEN Upper(campaign_name.s) ELSE <<>>,
                                       IF Truthy(results) THEN DOMAIN results.d ELSE {}) = T_UNKNOWN
    THEN [raise |-> FALSE, tag |-> Upper(Strip(objective_field))]
    ELSE [raise |-> FALSE,
          tag |-> InferFromNameAndResults(
                      IF Truthy(campaign_name) THEN Upper(campaign_name.s) ELSE <<>>,
                      IF Truthy(results) THEN DOMAIN results.d ELSE {})]

\* _infer_objective(campaign_name, objective_field, results): campaign_name
\* and results are Python values, objective_field is text.  [raise |-> TRUE]
\* is the AttributeError of .upper() / .keys() on a value of another type.
_infer_objective(campaign_name, objective_field, results) ==
    IF objective_field # <<>>
    THEN [raise |-> FALSE, tag |-> Upper(Strip(objective_field))]
    ELSE IF Truthy(campaign_name) /\ campaign_name.t # "str"
    THEN [raise |-> TRUE]
    ELSE IF Truthy(results) /\ results.t # "dict"
    THEN [raise |-> TRUE]
    ELSE [raise |-> FALSE,
          tag |-> InferFromNameAndResults(
                      IF Truthy(campaign_name) THEN Upper(campaign_name.s) ELSE <<>>,
                      IF Truthy(results) THEN DOMAIN results.d ELSE {})]

-----------------------------------------------------------------------------
(* Normalisation and printing *)

FloatFields == {"spend", "ctr", "unique_ctr", "cpc", "cpm", "frequency", "conversion_value"}
IntFields == {"impressions", "reach", "clicks", "unique_clicks", "conversions"}

\* the _safe_float(data.get(f, 0)) / _safe_int(data.get(f, 0)) block
NormalizeMetrics(data) ==
    [f \in FloatFields \cup IntFields |->
        IF f \in IntFields THEN _safe_int(Get(data, f, Num(0)))
                           ELSE _safe_float(Get(data, f, Num(0)))]

\* "{x:.2f}" on hundredths: sign, whole part, two decimals
Fmt2f(v) == [neg |-> v < 0,
             whole |-> (IF v < 0 THEN 0 - v ELSE v) \div 100,
             cents |-> (IF v < 0 THEN 0 - v ELSE v) % 100]

\* "{n:,}" and "{n}" on an int held in hundredths
FmtInt(v) == IF v >= 0 THEN v \div 100 ELSE 0 - ((0 - v) \div 100)

\* "{r:.2f}" on a quotient: rounded to hundredths
FmtRatio2f(r) == Fmt2f((200 * r.num + r.den) \div (2 * r.den))

-----------------------------------------------------------------------------
(* Daily analysis, one campaign *)

\* the prompt's variable parts, once the objective is inferred
PromptOf(campaign_name, objective_field, results, m, inferred) ==
    IF inferred.raise
    THEN [raise |-> TRUE]
    ELSE [raise |-> FALSE,
          prompt |-> [campaign_name |-> campaign_name,
                      objective_field |-> objective_field,
                      inferred_obj |-> inferred.tag,
                      metrics |-> m,
                      roas |-> _compute_roas(m["spend"], m["conversion_value"]),
                      results |-> results]]

\* build_daily_prompt from "inferred_obj = _infer_objective(...)" on
PromptWithObjective(campaign_name, objective_field, results, m) ==
    PromptOf(campaign_name, objective_field, results, m,
             _infer_objective(campaign_name, objective_field, results))

\* objective_field = (data.get("objective") or "").strip() and
\* results = data.get("results", {}) or {}
PromptFromFields(campaign_name, objective_raw, results_raw, m) ==
    IF Truthy(objective_raw) /\ objective_raw.t # "str"
    THEN [raise |-> TRUE]
    ELSE PromptWithObjective(campaign_name,
                             IF Truthy(objective_raw) THEN Strip(objective_raw.s) ELSE <<>>,
                             IF Truthy(results_raw) THEN results_raw ELSE DictV(EmptyDict),
                             m)

\* build_daily_prompt(data): the prompt's variable parts, or the
\* AttributeError of .strip() on an objective that is not a str (and those
\* of _infer_objective)
build_daily_prompt(data) ==
    PromptFromFields(Get(data, "campaign_name", Str(<<>>)),
                     Get(data, "objective", NoneV),
                     Get(data, "results", DictV(EmptyDict)),
                     NormalizeMetrics(data))

\* the "KPIs (base)" lines of format_daily_comment
KpiBase(m) ==
    [spend |-> Fmt2f(m["spend"]), impressions |-> FmtInt(m["impressions"]),
     reach |-> FmtInt(m["reach"]), cpm |-> Fmt2f(m["cpm"]),
     frequency |-> Fmt2f(m["frequency"])]

\* the sections format_daily_comment always renders
DailySections(campaign_name, m, report_date, analysis_text) ==
    [section \in {"header", "campaign", "kpi_base", "kpi_click", "analysis"} |->
       CASE section = "header" -> report_date
         [] section = "campaign" -> campaign_name
         [] section = "kpi_base" -> KpiBase(m)
         [] section = "kpi_click" ->
              [clicks |-> FmtInt(m["clicks"]), unique_clicks |-> FmtInt(m["unique_clicks"]),
               ctr |-> Fmt2f(m["ctr"]), unique_ctr |-> Fmt2f(m["unique_ctr"]),
               cpc |-> Fmt2f(m["cpc"])]
         [] section = "analysis" -> analysis_text]

\* the "KPIs (conversao)" lines, rendered if conversions > 0 or roas > 0
WithConversionKpis(sections, conversions, roas) ==
    IF conversions > 0 \/ RatioPositive(roas)
    THEN sections @@ ("kpi_conv" :> [conversions |-> FmtInt(conversions), roas |-> FmtRatio2f(roas)])
    ELSE sections

\* format_daily_comment: the sections of the rendered comment, from the
\* values analyze_daily_metrics normalised
format_daily_comment(campaign_name, m, roas, report_date, analysis_text) ==
    WithConversionKpis(DailySections(campaign_name, m, report_date, analysis_text),
                       m["conversions"], roas)

FallbackNotice == "Analise IA indisponivel. Metricas coletadas com sucesso."

NoName == <<"C","a","m","p","a","n","h","a"," ","s","e","m"," ","n","o","m","e">>

FallbackSections(campaign_name, m, report_date) ==
    [section \in {"header", "campaign", "kpi_base", "kpi_click", "notice"} |->
       CASE section = "header" -> report_date
         [] section = "campaign" -> campaign_name
         [] section = "kpi_base" ->
              [spend |-> Fmt2f(m["spend"]), impressions |-> FmtInt(m["impressions"]),
               cpm |-> Fmt2f(m["cpm"]), frequency |-> Fmt2f(m["frequency"])]
         [] section = "kpi_click" ->
              [clicks |-> FmtInt(m["clicks"]), ctr |-> Fmt2f(m["ctr"]), cpc |-> Fmt2f(m["cpc"])]
         [] section = "notice" -> FallbackNotice]

\* a call that returns value / a call that raises exc
Returned(value) == [raised |-> FALSE, value |-> value]
Raised(exc) == [raised |-> TRUE, exc |-> exc]

FallbackWithDates(data, dates) ==
    IF dates.raise THEN Raised("TypeError")
    ELSE Returned(FallbackSections(Get(data, "campaign_name", Str(NoName)),
                                   NormalizeMetrics(data), dates.report_date))

\* format_daily_comment_fallback(data): it resolves the dates and
\* normalises the record again
format_daily_comment_fallback(data) == FallbackWithDates(data, resolve_report_dates(data))

\* The generative-text call's outcomes: a completion whose content is text
\* or null, or an exception (timeout, non-success status, no choices).
GenOutcomes ==
    { [k |-> "completion", content |-> Str(<<" ", "O", "K", "\n">>)],
      [k |-> "completion", content |-> NoneV],
      [k |-> "timeout"], [k |-> "http_error"], [k |-> "malformed"] }
GenFailed(gen) == gen.k # "completion"

\* (response.choices[0].message.content or "").strip()
AnalysisText(gen) == IF Truthy(gen.content) THEN Strip(gen.content.s) ELSE <<>>

\* analyze_daily_metrics up to the generative-text call: TRUE when it raises
\* (data.get on a body that is not a dict, resolve_report_dates, build_daily_prompt)
DailyRaisesBeforeCall(data) ==
    \/ data.t # "dict"
    \/ resolve_report_dates(data.d).raise
    \/ build_daily_prompt(data.d).raise

\* the return statement of the try block
DailySuccess(m, analysis_text, formatted_comment) ==
    Returned([success |-> TRUE, type |-> "daily_single",
              metrics |-> [spend |-> m["spend"], impressions |-> m["impressions"],
                           clicks |-> m["clicks"], ctr |-> m["ctr"], cpc |-> m["cpc"]],
              analysis |-> analysis_text,
              formatted_comment |-> formatted_comment])

\* the except block: the fallback comment, whose own exception is not caught
DailyFailure(gen, fallback) ==
    IF fallback.raised THEN fallback
    ELSE Returned([success |-> FALSE, error |-> gen.k, formatted_comment |-> fallback.value])

AnalyzeDailyWith(data, gen, m, dates) ==
    IF ~GenFailed(gen)
    THEN DailySuccess(m, AnalysisText(gen),
                      format_daily_comment(Get(data, "campaign_name", Str(<<>>)), m,
                                           _compute_roas(m["spend"], m["conversion_value"]),
                                           dates.report_date, AnalysisText(gen)))
    ELSE DailyFailure(gen, format_daily_comment_fallback(data))

\* analyze_daily_metrics from the return of the generative-text call on,
\* with the dates and metrics it computed before the call
analyze_daily_metrics(data, gen) ==
    AnalyzeDailyWith(data.d, gen, NormalizeMetrics(data.d), resolve_report_dates(data.d))

-----------------------------------------------------------------------------
(* Float addition.  A float field of a record is held as its decimal value in
   hundredths, h, which stands for the double nearest to h / 100.  A sum of
   floats, which sum() accumulates by one rounded addition per item, is held
   as the double itself: a sign and a magnitude.  The magnitude is a natural
   number of units 2^-(FracLimbs * LimbBits), written as digits of base
   LimbBase = 2^LimbBits, least significant first: FracLimbs digits of
   fraction and two of whole part.  A double has at most MantissaBits
   significant bits. *)

MantissaBits == 53
LimbBits == 20
LimbBase == 1048576
FracLimbs == 4

\* the number of binary digits of n < LimbBase
BitLength(n) == CHOOSE k \in 0..LimbBits : n < 2^k /\ (k = 0 \/ n >= 2^(k - 1))

\* the number of binary digits of a magnitude
MagnitudeBits(a) ==
    CHOOSE n \in 0..(LimbBits * Len(a)) :
        /\ n = 0 \/ (a[((n - 1) \div LimbBits) + 1] # 0
                     /\ n = LimbBits * ((n - 1) \div LimbBits) + BitLength(a[((n - 1) \div LimbBits) + 1]))
        /\ \A j \in (((n + LimbBits - 1) \div LimbBits) + 1)..Len(a) : a[j] = 0

RECURSIVE AddLimbs(_, _, _, _)
\* a + sign * b + carry, digit by digit (sign is 1 or -1; a >= b when it is
\* -1, and the carry is then the borrow, 0 or -1)
AddLimbs(a, b, sign, carry) ==
    IF a = <<>> THEN <<>>
    ELSE <<(Head(a) + sign * Head(b) + carry) % LimbBase>>
         \o AddLimbs(Tail(a), Tail(b), sign, (Head(a) + sign * Head(b) + carry) \div LimbBase)

LimbsLess(a, b) == \E i \in 1..Len(a) : a[i] < b[i] /\ \A j \in (i + 1)..Len(a) : a[j] = b[j]

\* the binary digit of weight 2^k of a magnitude
BitAt(a, k) == (a[(k \div LimbBits) + 1] \div 2^(k % LimbBits)) % 2

\* some binary digit of weight below 2^k is 1
AnyBitBelow(a, k) ==
    \/ \E i \in 1..(k \div LimbBits) : a[i] # 0
    \/ a[(k \div LimbBits) + 1] % 2^(k % LimbBits) # 0

\* the digits of weight below 2^cut dropped, and one unit of weight 2^cut
\* added when they were more than half of it, or half of it next to an odd
\* digit; inexact tells that the exact value has digits below those of a
RoundAt(a, cut, inexact) ==
    IF cut <= 0 THEN a
    ELSE AddLimbs([i \in 1..Len(a) |->
                      IF i <= cut \div LimbBits THEN 0
                      ELSE IF i = (cut \div LimbBits) + 1
                      THEN (a[i] \div 2^(cut % LimbBits)) * 2^(cut % LimbBits)
                      ELSE a[i]],
                  [i \in 1..Len(a) |->
                      IF /\ i = (cut \div LimbBits) + 1
                         /\ BitAt(a, cut - 1) = 1
                         /\ (inexact \/ AnyBitBelow(a, cut - 1) \/ BitAt(a, cut) = 1)
                      THEN 2^(cut % LimbBits) ELSE 0],
                  1, 0)

\* round to nearest, ties to even, at MantissaBits significant bits
RoundFloat(a, inexact) == RoundAt(a, MagnitudeBits(a) - MantissaBits, inexact)

RECURSIVE FracDigits(_, _)
\* the first k digits, of base LimbBase, of the fraction r / 100
FracDigits(r, k) ==
    IF k = 0 THEN <<>>
    ELSE FracDigits((r * LimbBase) % 100, k - 1) \o <<(r * LimbBase) \div 100>>

\* float(h / 100): the double nearest to h / 100, which is a binary fraction
\* only when 25 divides h
FloatOf(h) ==
    [neg |-> h < 0,
     mag |-> RoundFloat(FracDigits((IF h < 0 THEN 0 - h ELSE h) % 100, FracLimbs)
                            \o <<((IF h < 0 THEN 0 - h ELSE h) \div 100) % LimbBase,
                                 ((IF h < 0 THEN 0 - h ELSE h) \div 100) \div LimbBase>>,
                        h % 25 # 0)]

\* x + y on doubles: the exact sum, rounded
FloatAdd(x, y) ==
    IF x.neg = y.neg
    THEN [neg |-> x.neg, mag |-> RoundFloat(AddLimbs(x.mag, y.mag, 1, 0), FALSE)]
    ELSE IF LimbsLess(x.mag, y.mag)
    THEN [neg |-> y.neg, mag |-> RoundFloat(AddLimbs(y.mag, x.mag, 0 - 1, 0), FALSE)]
    ELSE [neg |-> x.neg /\ x.mag # y.mag, mag |-> RoundFloat(AddLimbs(x.mag, y.mag, 0 - 1, 0), FALSE)]

RECURSIVE TimesSmall(_, _, _)
\* a * m + carry, for a small m
TimesSmall(a, m, carry) ==
    IF a = <<>> THEN <<carry>>
    ELSE <<(Head(a) * m + carry) % LimbBase>>
         \o TimesSmall(Tail(a), m, (Head(a) * m + carry) \div LimbBase)

\* p is 100 times a magnitude: its whole part, rounded half to even
CentsOfScaled(p) ==
    p[FracLimbs + 1] + LimbBase * p[FracLimbs + 2]
    + (IF /\ BitAt(p, FracLimbs * LimbBits - 1) = 1
          /\ (AnyBitBelow(p, FracLimbs * LimbBits - 1) \/ p[FracLimbs + 1] % 2 = 1)
       THEN 1 ELSE 0)

\* the hundredths that "{x:.2f}" prints for a double
Cents(x) == (IF x.neg THEN 0 - 1 ELSE 1) * CentsOfScaled(TimesSmall(x.mag, 100, 0))

RECURSIVE FloatSum(_, _, _)
\* sum(_safe_float(d.get(field, 0)) for d in items): the items are added to
\* the accumulator one by one, from the first to the last
FloatSum(acc, items, field) ==
    IF items = <<>> THEN acc
    ELSE FloatSum(FloatAdd(acc, FloatOf(_safe_float(Get(Head(items).d, field, Num(0))))),
                  Tail(items), field)

-----------------------------------------------------------------------------
(* Weekly analysis *)

RECURSIVE SumOver(_, _)
\* sum(_safe_int(d.get(field, 0)) for d in items)
SumOver(items, field) ==
    IF items = <<>> THEN 0
    ELSE _safe_int(Get(Head(items).d, field, Num(0))) + SumOver(Tail(items), field)

\* the report_date values of a batch that strptime accepts
ParsedDates(items) ==
    { p \in { ParseDate(Get(items[i].d, "report_date", NoneV).s) :
                i \in { j \in 1..Len(items) :
                          /\ Truthy(Get(items[j].d, "report_date", NoneV))
                          /\ Get(items[j].d, "report_date", NoneV).t = "str" } } : p.ok }

\* resolve_week_range raises TypeError on a truthy report_date that is not a str
WeekRangeRaises(items) ==
    \E i \in 1..Len(items) :
        /\ Truthy(Get(items[i].d, "report_date", NoneV))
        /\ Get(items[i].d, "report_date", NoneV).t # "str"

PeriodNotInformed == [k |-> "period_not_informed"]

\* min(dates) and max(dates), formatted
RangeOf(dates) ==
    IF dates = {}
    THEN PeriodNotInformed
    ELSE [k |-> "range",
          start |-> FormatDate(CHOOSE a \in dates : \A b \in dates : DateKey(a) <= DateKey(b)),
          end |-> FormatDate(CHOOSE a \in dates : \A b \in dates : DateKey(a) >= DateKey(b))]

\* resolve_week_range(data_list), on a batch where it does not raise
resolve_week_range(items) == RangeOf(ParsedDates(items))

\* what "for d in data_list" yields for a parsed JSON body: the items of a
\* list; nothing for an empty dict or str
WeeklyItems(data_list) == IF data_list.t = "list" THEN data_list.items ELSE <<>>

\* analyze_weekly_metrics up to the generative-text call: TRUE when it raises
\* (iterating a body that is not iterable, d.get on an element that is not a
\* dict -- the keys of a dict body, the characters of a str body --, or
\* resolve_week_range)
WeeklyRaisesBeforeCall(data_list) ==
    CASE data_list.t \in {"none", "num", "bool"} -> TRUE
      [] data_list.t \in {"dict", "str"} -> Truthy(data_list)
      [] data_list.t = "list" ->
           \/ \E i \in 1..Len(data_list.items) : data_list.items[i].t # "dict"
           \/ WeekRangeRaises(data_list.items)

\* avg_ctr and avg_cpc from the sums; total_spend and sum_ctr are doubles, and
\* so are the numerators of the two quotients
AggregatesOf(nonEmpty, count, total_spend, total_impressions, total_clicks, total_conversions, sum_ctr) ==
    [total_spend |-> total_spend,
     total_impressions |-> total_impressions,
     total_clicks |-> total_clicks,
     total_conversions |-> total_conversions,
     avg_ctr |-> IF nonEmpty THEN Ratio(sum_ctr, 100 * count) ELSE Ratio(FloatOf(0), 1),
     avg_cpc |-> IF total_clicks > 0 THEN Ratio(total_spend, total_clicks) ELSE Ratio(FloatOf(0), 1)]

AggregatesOfItems(nonEmpty, items) ==
    AggregatesOf(nonEmpty, Len(items),
                 FloatSum(FloatOf(0), items, "spend"), SumOver(items, "impressions"),
                 SumOver(items, "clicks"), SumOver(items, "conversions"),
                 FloatSum(FloatOf(0), items, "ctr"))

\* the totals and averages analyze_weekly_metrics computes
WeeklyAggregates(data_list) == AggregatesOfItems(Truthy(data_list), WeeklyItems(data_list))

\* format_weekly_comment: the sections of the rendered comment
format_weekly_comment(week_range, agg, analysis_text) ==
    [section \in {"header", "summary", "analysis"} |->
       CASE section = "header" -> week_range
         [] section = "summary" ->
              [total_spend |-> Fmt2f(Cents(agg.total_spend)),
               total_impressions |-> FmtInt(agg.total_impressions),
               total_clicks |-> FmtInt(agg.total_clicks),
               avg_ctr |-> FmtRatio2f(Ratio(Cents(agg.avg_ctr.num), agg.avg_ctr.den)),
               avg_cpc |-> FmtRatio2f(Ratio(Cents(agg.avg_cpc.num), agg.avg_cpc.den)),
               total_conversions |-> FmtInt(agg.total_conversions)]
         [] section = "analysis" -> analysis_text]

\* analyze_weekly_metrics without its except block: the failure of the call propagates
analyze_weekly_metrics_reraise(data_list, gen) ==
    IF ~GenFailed(gen)
    THEN Returned([success |-> TRUE, type |-> "weekly",
                   formatted_comment |->
                       format_weekly_comment(resolve_week_range(WeeklyItems(data_list)),
                                             WeeklyAggregates(data_list), AnalysisText(gen))])
    ELSE Raised(gen.k)

\* analyze_weekly_metrics from the return of the generative-text call on
analyze_weekly_metrics(data_list, gen) ==
    IF ~GenFailed(gen)
    THEN Returned([success |-> TRUE, type |-> "weekly",
                   formatted_comment |->
                       format_weekly_comment(resolve_week_range(WeeklyItems(data_list)),
                                             WeeklyAggregates(data_list), AnalysisText(gen))])
    ELSE Returned([success |-> FALSE, error |-> gen.k,
                   formatted_comment |-> [section \in {"notice"} |-> "Erro ao gerar relatorio semanal."]])

-----------------------------------------------------------------------------
(* Delivery: send_clickup_comment *)

MaxLines == 2

\* A line of the CLI's stdout: text that does not start with "{", a line that
\* starts with "{" and is not JSON, or a JSON object.
StdoutLines ==
    { [k |-> "text"], [k |-> "badjson"],
      [k |-> "json", obj |-> ("success" :> BoolV(TRUE)) @@ ("comment_id" :> Str(<<"c","1">>))],
      [k |-> "json", obj |-> ("success" :> BoolV(FALSE)) @@ ("err" :> Str(<<"E">>))] }

SeqsUpTo(S, n) == UNION { [1..k -> S] : k \in 0..n }

\* The outcomes of subprocess.run(cmd, timeout=30): the CLI exits (0 with
\* some stdout, or non-zero with the provider's error on stderr), or run
\* raises (timeout, CLI not installed).
ProcOutcomes ==
    { [k |-> "exit", returncode |-> 0, stdout |-> out, stderr |-> ""] : out \in SeqsUpTo(StdoutLines, MaxLines) }
    \cup { [k |-> "exit", returncode |-> 1, stdout |-> <<>>, stderr |-> "provider error"],
           [k |-> "raise", exc |-> "TimeoutExpired"],
           [k |-> "raise", exc |-> "FileNotFoundError"] }

\* the provider reports that the comment was created
ProviderCreated(proc) ==
    /\ proc.k = "exit" /\ proc.returncode = 0
    /\ \E i \in 1..Len(proc.stdout) :
          /\ proc.stdout[i].k = "json"
          /\ Truthy(Get(proc.stdout[i].obj, "success", NoneV))


RECURSIVE ScanStdout(_)
\* the loop over output_lines inside try / except: pass, then return {"success": True}
ScanStdout(lines) ==
    IF lines = <<>> THEN [success |-> TRUE]
    ELSE CASE Head(lines).k = "text" -> ScanStdout(Tail(lines))
           [] Head(lines).k = "badjson" -> [success |-> TRUE]
           [] Head(lines).k = "json" ->
                IF Truthy(Get(Head(lines).obj, "success", NoneV))
                THEN [success |-> TRUE, comment_id |-> Get(Head(lines).obj, "comment_id", NoneV)]
                ELSE ScanStdout(Tail(lines))

\* send_clickup_comment(task_id, comment_text), given what subprocess.run did
send_clickup_comment(proc) ==
    IF proc.k = "raise"
    THEN [success |-> FALSE, error |-> proc.exc]
    ELSE IF proc.returncode = 0
    THEN ScanStdout(proc.stdout)
    ELSE [success |-> FALSE, error |-> proc.stderr]

-----------------------------------------------------------------------------
(* Request handlers *)

Pending == [k |-> "pending"]
NoResponse == [status |-> 0]
\* req.received_before is received_data as the request found it
NoStore == [slug \in {} |-> NoneV]
IdleReq == [pc |-> "idle", endpoint |-> "none", slug |-> "none", body |-> NoneV,
            received_before |-> NoStore]
NoResult == [none |-> TRUE]

\* the log of external calls: the last call issued gets its outcome
SetLastOutcome(log, outcome) == [log EXCEPT ![Len(log)].outcome = outcome]
NoFn == [op |-> "none"]

\* json.loads failed inside request.json()
InvalidJson == [t |-> "invalid"]

\* the except Exception branch of receive_meta_ads_data
DailyFault(e) == [status |-> 500, body |-> [error |-> e, message |-> "Failed to process webhook data"]]

\* the except Exception branch of receive_weekly_data
WeeklyFault(e) == [status |-> 500, body |-> [error |-> e]]

\* receive_meta_ads_data after send_clickup_comment returned
DailyRespond(slug, task_id, ar, res) ==
    IF res.success
    THEN IF {"metrics", "type"} \subseteq DOMAIN ar
         THEN [status |-> 200,
               body |-> [status |-> "success", client |-> slug, task_id |-> task_id,
                         comment_id |-> Get(res, "comment_id", NoneV),
                         analysis_summary |-> [metrics |-> ar.metrics, type |-> ar.type]]]
         ELSE DailyFault("KeyError: 'metrics'")
    ELSE [status |-> 500,
          body |-> [status |-> "partial_success",
                    message |-> "Data received and analyzed, but failed to post to ClickUp",
                    error |-> Get(res, "error", NoneV)]]

\* receive_weekly_data after send_clickup_comment returned
WeeklyRespond(slug, task_id, res) ==
    IF res.success
    THEN [status |-> 200,
          body |-> [status |-> "success", client |-> slug, task_id |-> task_id,
                    comment_id |-> Get(res, "comment_id", NoneV)]]
    ELSE [status |-> 500,
          body |-> [status |-> "error",
                    message |-> "Failed to post weekly report to ClickUp",
                    error |-> Get(res, "error", NoneV)]]

\* POST /webhook/meta-ads/{client_slug}: from request.json() to the
\* generative-text call inside analyze_daily_metrics
DailyStart(slug, body) ==
    /\ req.pc = "idle" /\ fn = NoFn
    /\ fn' = fn /\ client_mapping' = client_mapping
    /\ analysis_result' = NoResult /\ result' = NoResult
    /\ IF body = InvalidJson
       THEN /\ req' = [pc |-> "done", endpoint |-> "daily", slug |-> slug, body |-> body,
                        received_before |-> received_data]
            /\ response' = DailyFault("JSONDecodeError")
            /\ calls' = <<>>
            /\ received_data' = received_data
       ELSE IF slug \notin DOMAIN client_mapping
       THEN /\ req' = [pc |-> "done", endpoint |-> "daily", slug |-> slug, body |-> body,
                        received_before |-> received_data]
            /\ response' = [status |-> 400,
                            body |-> [error |-> "Client not configured",
                                      available_clients |-> DOMAIN client_mapping]]
            /\ calls' = <<>>
            /\ received_data' = received_data
       ELSE /\ received_data' = (slug :> [timestamp |-> "now", data |-> body]) @@ received_data
            /\ IF DailyRaisesBeforeCall(body)
               THEN /\ req' = [pc |-> "done", endpoint |-> "daily", slug |-> slug, body |-> body,
                        received_before |-> received_data]
                    /\ response' = DailyFault("AttributeError or TypeError")
                    /\ calls' = <<>>
               ELSE /\ req' = [pc |-> "gen_call", endpoint |-> "daily", slug |-> slug, body |-> body,
                        received_before |-> received_data]
                    /\ response' = NoResponse
                    /\ calls' = <<[to |-> "gen", outcome |-> Pending]>>

\* the handler once analyze_daily_metrics returned ar or raised
DailyAnalysed(gen, ar) ==
    IF ar.raised
    THEN /\ analysis_result' = NoResult
         /\ calls' = SetLastOutcome(calls, gen)
         /\ response' = DailyFault(ar.exc)
         /\ req' = [req EXCEPT !.pc = "done"]
    ELSE /\ analysis_result' = ar.value
         /\ calls' = Append(SetLastOutcome(calls, gen),
                            [to |-> "clickup",
                             task_id |-> client_mapping[req.slug].daily_task_id,
                             comment_text |-> ar.value.formatted_comment,
                             outcome |-> Pending])
         /\ response' = response
         /\ req' = [req EXCEPT !.pc = "deliver_call"]

\* the generative-text call returns: the rest of analyze_daily_metrics, then
\* the handler up to subprocess.run inside send_clickup_comment
DailyGenReturn(gen) ==
    /\ req.pc = "gen_call" /\ req.endpoint = "daily"
    /\ DailyAnalysed(gen, analyze_daily_metrics(req.body, gen))
    /\ UNCHANGED <<received_data, client_mapping, result, fn>>

\* DailyDeliverReturn with a delivery that is attempted again after a failure
DailyDeliverReturn_retry(proc) ==
    /\ req.pc = "deliver_call" /\ req.endpoint = "daily"
    /\ result' = send_clickup_comment(proc)
    /\ IF ~send_clickup_comment(proc).success /\ Len(calls) < 3
       THEN /\ calls' = Append(SetLastOutcome(calls, proc), [calls[Len(calls)] EXCEPT !.outcome = Pending])
            /\ UNCHANGED <<req, response>>
       ELSE /\ calls' = SetLastOutcome(calls, proc)
            /\ response' = DailyRespond(req.slug, client_mapping[req.slug].daily_task_id,
                                        analysis_result, send_clickup_comment(proc))
            /\ req' = [req EXCEPT !.pc = "done"]
    /\ UNCHANGED <<received_data, client_mapping, analysis_result, fn>>

\* subprocess.run returns or raises: the rest of send_clickup_comment, then
\* the handler's response
DailyDeliverReturn(proc) ==
    /\ req.pc = "deliver_call" /\ req.endpoint = "daily"
    /\ calls' = SetLastOutcome(calls, proc)
    /\ result' = send_clickup_comment(proc)
    /\ response' = DailyRespond(req.slug, client_mapping[req.slug].daily_task_id,
                                analysis_result, send_clickup_comment(proc))
    /\ req' = [req EXCEPT !.pc = "done"]
    /\ UNCHANGED <<received_data, client_mapping, analysis_result, fn>>

\* POST /webhook/meta-ads-weekly/{client_slug}: from request.json() to the
\* generative-text call inside analyze_weekly_metrics
WeeklyStart(slug, body) ==
    /\ req.pc = "idle" /\ fn = NoFn
    /\ UNCHANGED <<received_data, client_mapping, fn>>
    /\ analysis_result' = NoResult /\ result' = NoResult
    /\ IF body = InvalidJson
       THEN /\ req' = [pc |-> "done", endpoint |-> "weekly", slug |-> slug, body |-> body,
                        received_before |-> received_data]
            /\ response' = WeeklyFault("JSONDecodeError")
            /\ calls' = <<>>
       ELSE IF slug \notin DOMAIN client_mapping
       THEN /\ req' = [pc |-> "done", endpoint |-> "weekly", slug |-> slug, body |-> body,
                        received_before |-> received_data]
            /\ response' = [status |-> 400, body |-> [error |-> "Client not configured"]]
            /\ calls' = <<>>
       ELSE IF WeeklyRaisesBeforeCall(body)
       THEN /\ req' = [pc |-> "done", endpoint |-> "weekly", slug |-> slug, body |-> body,
                        received_before |-> received_data]
            /\ response' = WeeklyFault("AttributeError or TypeError")
            /\ calls' = <<>>
       ELSE /\ req' = [pc |-> "gen_call", endpoint |-> "weekly", slug |-> slug, body |-> body,
                        received_before |-> received_data]
            /\ response' = NoResponse
            /\ calls' = <<[to |-> "gen", outcome |-> Pending]>>

\* the handler once analyze_weekly_metrics returned ar or raised
WeeklyAnalysed(gen, ar) ==
    IF ar.raised
    THEN /\ analysis_result' = NoResult
         /\ calls' = SetLastOutcome(calls, gen)
         /\ response' = WeeklyFault(ar.exc)
         /\ req' = [req EXCEPT !.pc = "done"]
    ELSE /\ analysis_result' = ar.value
         /\ calls' = Append(SetLastOutcome(calls, gen),
                            [to |-> "clickup",
                             task_id |-> client_mapping[req.slug].weekly_task_id,
                             comment_text |-> ar.value.formatted_comment,
                             outcome |-> Pending])
         /\ response' = response
         /\ req' = [req EXCEPT !.pc = "deliver_call"]

\* the generative-text call returns: the rest of analyze_weekly_metrics,
\* then the handler up to subprocess.run inside send_clickup_comment
WeeklyGenReturn(gen) ==
    /\ req.pc = "gen_call" /\ req.endpoint = "weekly"
    /\ WeeklyAnalysed(gen, analyze_weekly_metrics(req.body, gen))
    /\ UNCHANGED <<received_data, client_mapping, result, fn>>

\* subprocess.run returns or raises: the rest of send_clickup_comment, then
\* the handler's response
WeeklyDeliverReturn(proc) ==
    /\ req.pc = "deliver_call" /\ req.endpoint = "weekly"
    /\ calls' = SetLastOutcome(calls, proc)
    /\ result' = send_clickup_comment(proc)
    /\ response' = WeeklyRespond(req.slug, client_mapping[req.slug].weekly_task_id,
                                 send_clickup_comment(proc))
    /\ req' = [req EXCEPT !.pc = "done"]
    /\ UNCHANGED <<received_data, client_mapping, analysis_result, fn>>

\* GET /webhook/status
WebhookStatus ==
    /\ req.pc = "idle" /\ fn = NoFn
    /\ req' = [pc |-> "done", endpoint |-> "status", slug |-> "none", body |-> NoneV,
               received_before |-> received_data]
    /\ response' = [status |-> 200,
                    body |-> [status |-> "online",
                              received_data_count |-> Cardinality(DOMAIN received_data),
                              clients |-> DOMAIN received_data]]
    /\ calls' = <<>> /\ analysis_result' = NoResult /\ result' = NoResult
    /\ UNCHANGED <<received_data, client_mapping, fn>>

\* GET /webhook/data/{client_slug}
GetClientData(slug) ==
    /\ req.pc = "idle" /\ fn = NoFn
    /\ req' = [pc |-> "done", endpoint |-> "data", slug |-> slug, body |-> NoneV,
               received_before |-> received_data]
    /\ response' = IF slug \notin DOMAIN received_data
                   THEN [status |-> 404, body |-> [detail |-> "Client data not found"]]
                   ELSE [status |-> 200, body |-> received_data[slug]]
    /\ calls' = <<>> /\ analysis_result' = NoResult /\ result' = NoResult
    /\ UNCHANGED <<received_data, client_mapping, fn>>

\* the response is sent; the server waits for the next request
Finish ==
    /\ req.pc = "done"
    /\ req' = IdleReq /\ response' = NoResponse /\ calls' = <<>>
    /\ analysis_result' = NoResult /\ result' = NoResult
    /\ UNCHANGED <<received_data, client_mapping, fn>>

-----------------------------------------------------------------------------
(* Daily analysis, consolidated *)

ConsolidatedFallbackText == "PONTOS A MELHORAR: IA indisponivel. ACOES IMEDIATAS: Nenhuma acao imediata necessaria."

\* if "client_name" not in c and client_name: c["client_name"] = client_name
InheritClientName(c, client_name) ==
    IF "client_name" \notin DOMAIN c /\ Truthy(client_name)
    THEN c @@ ("client_name" :> client_name)
    ELSE c

\* the head of the loop body: the campaign inherits report_date and
\* client_name from the payload when it has none
InheritFromPayload(c, payload) ==
    InheritClientName(
        IF "report_date" \notin DOMAIN c /\ Truthy(Get(payload, "report_date", NoneV))
        THEN c @@ ("report_date" :> payload["report_date"])
        ELSE c,
        Get(payload, "client_name", Str(<<"S","n","o","b"," ","M","o","t","e","l"," ","L","T","D","A">>)))

\* the lines a block always has
BlockSections(campaign_name, m, analysis_text) ==
    [section \in {"name", "kpi_base", "kpi_click", "analysis"} |->
       CASE section = "name" -> campaign_name
         [] section = "kpi_base" -> KpiBase(m)
         [] section = "kpi_click" ->
              [clicks |-> FmtInt(m["clicks"]), ctr |-> Fmt2f(m["ctr"]), cpc |-> Fmt2f(m["cpc"])]
         [] section = "analysis" -> analysis_text]

BlockOf(campaign_name, m, analysis_text) ==
    WithConversionKpis(BlockSections(campaign_name, m, analysis_text),
                       m["conversions"],
                       _compute_roas(m["spend"], m["conversion_value"]))

\* blocks.append(...): the block of one campaign
ConsolidatedBlock(c, analysis_text) ==
    BlockOf(Get(c, "campaign_name", Str(NoName)), NormalizeMetrics(c), analysis_text)

\* the "Conversoes" and "ROAS" lines of the macro block, rendered if
\* total_conversions > 0 or total_roas > 0
WithTotalConversions(base, total_conversions, total_roas) ==
    IF total_conversions > 0 \/ RatioPositive(total_roas)
    THEN base @@ ("total_conversions" :> FmtInt(total_conversions))
              @@ ("total_roas" :> FmtRatio2f(total_roas))
    ELSE base

\* total_spend is the sum to the cent
SummaryOf(campaigns, total_spend) ==
    WithTotalConversions(
        [total_spend |-> Fmt2f(total_spend),
         total_impressions |-> FmtInt(SumOver(campaigns, "impressions")),
         total_reach |-> FmtInt(SumOver(campaigns, "reach")),
         total_clicks |-> FmtInt(SumOver(campaigns, "clicks"))],
        SumOver(campaigns, "conversions"),
        _compute_roas(total_spend, Cents(FloatSum(FloatOf(0), campaigns, "conversion_value"))))

\* the macro block: totals over the campaigns
ConsolidatedSummary(campaigns) == SummaryOf(campaigns, Cents(FloatSum(FloatOf(0), campaigns, "spend")))

\* payload.get("campaigns") or []
PayloadCampaigns(payload) ==
    IF Truthy(Get(payload, "campaigns", NoneV)) THEN payload["campaigns"] ELSE ListV(<<>>)

\* the "if not isinstance(campaigns, list) or len(campaigns) == 0" return,
\* and the loop's c.get on a campaign that is not a dict
ConsolidatedWithCampaigns(campaigns, report_date) ==
    IF campaigns.t # "list" \/ campaigns.items = <<>>
    THEN Returned([success |-> FALSE, error |-> "Payload invalido",
                   formatted_comment |->
                       [section \in {"header", "notice"} |->
                          IF section = "header"
                          THEN report_date
                          ELSE "Nenhuma campanha enviada em campaigns."]])
    ELSE IF \E i \in 1..Len(campaigns.items) : campaigns.items[i].t # "dict"
    THEN Raised("AttributeError")
    ELSE [raised |-> FALSE, loop |-> TRUE]

ConsolidatedWithDates(payload, dates) ==
    IF dates.raise THEN Raised("TypeError")
    ELSE ConsolidatedWithCampaigns(PayloadCampaigns(payload), dates.report_date)

\* analyze_daily_metrics_consolidated up to its loop: it raises (payload.get
\* on a payload that is not a dict, resolve_report_dates, c.get on a campaign
\* that is not a dict), returns the "no campaigns" result, or enters the loop
ConsolidatedBeforeLoop(payload) ==
    IF payload.t # "dict" THEN Raised("AttributeError")
    ELSE ConsolidatedWithDates(payload.d, resolve_report_dates(payload.d))

\* the consolidated comment once every block is built
ConsolidatedResult(payload, blocks) ==
    Returned([success |-> TRUE, type |-> "daily_consolidated",
              formatted_comment |->
                  [section \in {"header", "summary", "blocks"} |->
                     CASE section = "header" -> resolve_report_dates(payload.d).report_date
                       [] section = "summary" -> ConsolidatedSummary(PayloadCampaigns(payload.d).items)
                       [] section = "blocks" -> blocks]])

\* the state of the direct call
FnState(pc, payload, campaigns, i, blocks, gens, out) ==
    [op |-> "consolidated", pc |-> pc, payload |-> payload, campaigns |-> campaigns,
     i |-> i, blocks |-> blocks, gens |-> gens, out |-> out]

\* iteration i with its campaign c after the inheritance: build_daily_prompt
\* raises, or the generative-text call is issued
IterationWith(payload, campaigns, i, blocks, gens, c) ==
    IF build_daily_prompt(c).raise
    THEN FnState("done", payload, [campaigns EXCEPT ![i] = DictV(c)], i, blocks, gens,
                 Raised("AttributeError"))
    ELSE FnState("gen_call", payload, [campaigns EXCEPT ![i] = DictV(c)], i, blocks, gens, Pending)

\* the loop from the top of iteration i to its generative-text call, or to
\* the end of the function when i is past the last campaign
ConsolidatedEnterIteration(payload, campaigns, i, blocks, gens) ==
    IF i > Len(campaigns)
    THEN FnState("done", payload, campaigns, i, blocks, gens, ConsolidatedResult(payload, blocks))
    ELSE IterationWith(payload, campaigns, i, blocks, gens,
                       InheritFromPayload(campaigns[i].d, payload.d))

\* the call's state after the code before the loop
ConsolidatedAfterPre(payload, pre) ==
    IF "loop" \in DOMAIN pre
    THEN ConsolidatedEnterIteration(payload, PayloadCampaigns(payload.d).items, 1, <<>>, <<>>)
    ELSE FnState("done", payload, <<>>, 0, <<>>, <<>>, pre)

\* analyze_daily_metrics_consolidated(payload) is called (as the module's
\* main does): up to the first generative-text call
ConsolidatedCall(payload) ==
    /\ req.pc = "idle" /\ fn = NoFn
    /\ fn' = ConsolidatedAfterPre(payload, ConsolidatedBeforeLoop(payload))
    /\ UNCHANGED <<received_data, client_mapping, req, analysis_result, result, calls, response>>

\* ConsolidatedGenReturn with a loop that goes on to the next campaign
\* without a block when the call failed
ConsolidatedGenReturn_skip(gen) ==
    /\ fn # NoFn /\ fn.op = "consolidated" /\ fn.pc = "gen_call"
    /\ fn' = ConsolidatedEnterIteration(
                 fn.payload, fn.campaigns, fn.i + 1,
                 IF GenFailed(gen) THEN fn.blocks
                 ELSE Append(fn.blocks, ConsolidatedBlock(fn.campaigns[fn.i].d, AnalysisText(gen))),
                 Append(fn.gens, gen))
    /\ UNCHANGED <<received_data, client_mapping, req, analysis_result, result, calls, response>>

\* a generative-text call of the loop returns: the block is appended and the
\* loop goes on to the next campaign
ConsolidatedGenReturn(gen) ==
    /\ fn # NoFn /\ fn.op = "consolidated" /\ fn.pc = "gen_call"
    /\ fn' = ConsolidatedEnterIteration(
                 fn.payload, fn.campaigns, fn.i + 1,
                 Append(fn.blocks,
                        ConsolidatedBlock(fn.campaigns[fn.i].d,
                                          IF GenFailed(gen) THEN ConsolidatedFallbackText
                                          ELSE AnalysisText(gen))),
                 Append(fn.gens, gen))
    /\ UNCHANGED <<received_data, client_mapping, req, analysis_result, result, calls, response>>

\* the direct call is over
FnFinish ==
    /\ fn # NoFn /\ fn.pc = "done"
    /\ fn' = NoFn
    /\ UNCHANGED <<received_data, client_mapping, req, analysis_result, result, calls, response>>

-----------------------------------------------------------------------------
(* Functions of the analyzer applied directly *)

\* spend and conversion_value, in hundredths: negative, zero and positive
RoasValues == {0 - 500, 0, 1, 250, 1023, 2000, 5000}

\* _compute_roas(spend, conversion_value) is applied
ComputeRoasCall(spend, conversion_value) ==
    /\ req.pc = "idle" /\ fn = NoFn
    /\ fn' = [op |-> "_compute_roas", pc |-> "done", spend |-> spend,
              conversion_value |-> conversion_value,
              out |-> _compute_roas(spend, conversion_value)]
    /\ UNCHANGED <<received_data, client_mapping, req, analysis_result, result, calls, response>>

-----------------------------------------------------------------------------
(* Requests the server receives *)

MaxBatch == 2

N_EngPerfil == <<"[","E","N","G","A","J","A","M","E","N","T","O","]"," ","[","P","E","R","F","I","L","]">>
N_VendasLink == <<"v","e","n","d","a","s"," ","l","i","n","k">>
D_1229 == <<"2","0","2","5","-","1","2","-","2","9">>

\* the record of the module's own test, numbers sent as strings
R_full ==
    ("campaign_name" :> Str(N_EngPerfil)) @@ ("objective" :> Str(<<>>))
    @@ ("spend" :> Str(<<"1","0",".","2","3">>)) @@ ("impressions" :> Str(<<"4","0","9","5">>))
    @@ ("clicks" :> Str(<<"1","8","5">>)) @@ ("ctr" :> Str(<<"4",".","5","2">>))
    @@ ("report_date" :> Str(D_1229))
    @@ ("results" :> DictV(("profile_visits" :> Num(8400))))

\* a converting campaign, numbers sent as JSON numbers
R_num ==
    ("campaign_name" :> Str(N_VendasLink)) @@ ("spend" :> Num(2000))
    @@ ("impressions" :> Num(900000)) @@ ("clicks" :> Num(1000)) @@ ("ctr" :> Num(233))
    @@ ("conversions" :> Num(200)) @@ ("conversion_value" :> Num(5000))
    @@ ("report_date" :> Str(<<"2","0","2","5","-","1","2","-","2","3">>))

\* values the normaliser has to default, and a date in another format
R_odd ==
    ("spend" :> Str(<<"a","b","c">>)) @@ ("impressions" :> NoneV) @@ ("clicks" :> BoolV(TRUE))
    @@ ("ctr" :> ListV(<<>>)) @@ ("report_date" :> Str(<<"2","9","/","1","2","/","2","0","2","5">>))

\* report_date sent as a number
R_baddate == ("campaign_name" :> Str(N_VendasLink)) @@ ("report_date" :> Num(2025122900))

\* objective sent as a number
R_badobj == ("campaign_name" :> Str(N_VendasLink)) @@ ("objective" :> Num(100))

Slugs == {"snob-motel", "acme"}

DailyBodies ==
    {InvalidJson}
    \cup { DictV(r) : r \in {R_full, R_num, EmptyDict, R_odd, R_baddate, R_badobj} }
    \cup { ListV(<<DictV(R_full)>>), Num(500) }

BatchItems == { DictV(R_full), DictV(R_num), DictV(EmptyDict), DictV(R_odd), DictV(R_baddate), Num(500) }

WeeklyBodies ==
    {InvalidJson}
    \cup { ListV(items) : items \in SeqsUpTo(BatchItems, MaxBatch) }
    \cup { DictV(R_full), DictV(EmptyDict), Str(<<>>), NoneV }

CampaignItems == { DictV(R_full), DictV(R_num), DictV(EmptyDict), DictV(R_badobj), Num(500) }

ConsolidatedPayloads ==
    { DictV(("report_date" :> Str(D_1229)) @@ ("campaigns" :> ListV(items))) :
        items \in SeqsUpTo(CampaignItems, MaxBatch) }
    \cup { DictV(EmptyDict),
           DictV(("campaigns" :> DictV(R_full))),
           DictV(("report_date" :> Num(2025122900)) @@ ("campaigns" :> ListV(<<DictV(R_full)>>))) }

MaxTotals == 3

\* records of a week: spends of 10.23, 0.10 and 0.20
TotalsItems ==
    { DictV(R_full),
      DictV(("spend" :> Num(10)) @@ ("impressions" :> Num(100000)) @@ ("clicks" :> Num(300))
            @@ ("ctr" :> Str(<<"0",".","3">>))),
      DictV(("spend" :> Str(<<"0",".","2","0">>)) @@ ("impressions" :> Num(50000))
            @@ ("clicks" :> Num(100)) @@ ("ctr" :> Num(20))) }

\* analyze_weekly_metrics(data_list) computes its totals and averages, the
\* statements before the prompt is built
WeeklyTotalsCall(data_list) ==
    /\ req.pc = "idle" /\ fn = NoFn
    /\ fn' = [op |-> "weekly_totals", pc |-> "done", data_list |-> data_list,
              out |-> WeeklyAggregates(ListV(data_list))]
    /\ UNCHANGED <<received_data, client_mapping, req, analysis_result, result, calls, response>>

-----------------------------------------------------------------------------
(* The server *)

Init ==
    /\ received_data = NoStore
    /\ client_mapping = ("snob-motel" :> [daily_task_id |-> "86ae5nt15",
                                          weekly_task_id |-> "86ae5nt1d",
                                          account_name |-> "CA - Snob Motel"])
    /\ req = IdleReq
    /\ analysis_result = NoResult
    /\ result = NoResult
    /\ calls = <<>>
    /\ response = NoResponse
    /\ fn = NoFn

Next ==
    \/ \E slug \in Slugs, body \in DailyBodies : DailyStart(slug, body)
    \/ \E gen \in GenOutcomes : DailyGenReturn(gen)
    \/ \E proc \in ProcOutcomes : DailyDeliverReturn(proc)
    \/ \E slug \in Slugs, body \in WeeklyBodies : WeeklyStart(slug, body)
    \/ \E gen \in GenOutcomes : WeeklyGenReturn(gen)
    \/ \E proc \in ProcOutcomes : WeeklyDeliverReturn(proc)
    \/ WebhookStatus
    \/ \E slug \in Slugs : GetClientData(slug)
    \/ Finish
    \/ \E payload \in ConsolidatedPayloads : ConsolidatedCall(payload)
    \/ \E gen \in GenOutcomes : ConsolidatedGenReturn(gen)
    \/ \E spend \in RoasValues, conversion_value \in RoasValues :
          ComputeRoasCall(spend, conversion_value)
    \/ \E data_list \in SeqsUpTo(TotalsItems, MaxTotals) : WeeklyTotalsCall(data_list)
    \/ FnFinish

Spec == Init /\ [][Next]_vars

-----------------------------------------------------------------------------
(* Properties of the request handlers *)

Done == req.pc = "done"
IsPost == req.endpoint \in {"daily", "weekly"}
Configured == req.slug \in DOMAIN client_mapping
GenReturned == Len(calls) >= 1 /\ calls[1].to = "gen" /\ calls[1].outcome # Pending
DeliveryReturned == Len(calls) >= 2 /\ calls[Len(calls)].to = "clickup" /\ calls[Len(calls)].outcome # Pending
ClickupCalls == { i \in 1..Len(calls) : calls[i].to = "clickup" }

IsNumeric(x) == x.t = "num" \/ (x.t = "str" /\ ParseFloat(x.s).ok)

\* a body of the shape and field types of a CampaignMetricsRecord
WellFormedRecord(v) ==
    /\ v.t = "dict"
    /\ \A f \in DOMAIN v.d :
         CASE f \in FloatFields \cup IntFields -> IsNumeric(v.d[f])
           [] f \in {"campaign_name", "ad_name", "adset_name", "objective", "client_name"} -> v.d[f].t = "str"
           [] f = "results" -> v.d[f].t = "dict"
           [] f = "report_date" -> v.d[f].t = "str" /\ ParseDate(v.d[f].s).ok
           [] OTHER -> TRUE

\* C1: a daily request with a configured slug and a well-formed record, whose
\* generative-text call fails and whose delivery succeeds, is answered 200.
C1_GenFailureAloneIsNotAnError ==
    ( /\ Done /\ req.endpoint = "daily" /\ Configured /\ WellFormedRecord(req.body)
      /\ GenReturned /\ GenFailed(calls[1].outcome)
      /\ DeliveryReturned /\ ProviderCreated(calls[2].outcome) )
    => response.status = 200

\* C2: for every outcome of the generative-text call, the analysis returns a
\* result with a formatted_comment and does not raise; when the call failed
\* the result's success flag is false and the comment carries the canned
\* notice in place of generated text.
C2_AnalysisAbsorbsGenFailure ==
    (IsPost /\ GenReturned) =>
        /\ "formatted_comment" \in DOMAIN analysis_result
        /\ GenFailed(calls[1].outcome) =>
              /\ analysis_result.success = FALSE
              /\ "notice" \in DOMAIN analysis_result.formatted_comment
              /\ "analysis" \notin DOMAIN analysis_result.formatted_comment
        /\ ~GenFailed(calls[1].outcome) =>
              /\ analysis_result.success = TRUE
              /\ analysis_result.formatted_comment["analysis"] = AnalysisText(calls[1].outcome)

C2_Witness ==
    /\ req.endpoint = "daily" /\ GenReturned /\ calls[1].outcome.k = "timeout"
    /\ analysis_result.success = FALSE
    /\ analysis_result.formatted_comment["notice"] = FallbackNotice

\* the daily comment names the campaign and prints the base KPIs of the record
DailyHasIdentityAndBaseKpis(data, comment) ==
    /\ {"campaign", "kpi_base"} \subseteq DOMAIN comment
    /\ "campaign_name" \in DOMAIN data => comment["campaign"] = data["campaign_name"]
    /\ comment["kpi_base"].spend = Fmt2f(NormalizeMetrics(data)["spend"])
    /\ comment["kpi_base"].impressions = FmtInt(NormalizeMetrics(data)["impressions"])

\* the weekly comment names the period and prints the totals of the batch
WeeklyHasIdentityAndBaseKpis(data_list, comment) ==
    /\ {"header", "summary"} \subseteq DOMAIN comment
    /\ comment["header"] = resolve_week_range(WeeklyItems(data_list))
    /\ comment["summary"].total_spend = Fmt2f(Cents(WeeklyAggregates(data_list).total_spend))
    /\ comment["summary"].total_impressions = FmtInt(WeeklyAggregates(data_list).total_impressions)

\* the consolidated comment prints the totals and, for each campaign, its
\* name and base KPIs
ConsolidatedHasIdentityAndBaseKpis(campaigns, comment) ==
    /\ {"summary", "blocks"} \subseteq DOMAIN comment
    /\ Len(comment["blocks"]) = Len(campaigns)
    /\ \A i \in 1..Len(campaigns) :
          /\ {"name", "kpi_base"} \subseteq DOMAIN comment["blocks"][i]
          /\ comment["blocks"][i]["kpi_base"].spend = Fmt2f(NormalizeMetrics(campaigns[i].d)["spend"])

\* C3: in every run of the daily, weekly and consolidated pipelines, whether
\* the generative-text call succeeds or fails, the formatted_comment names
\* the campaign / batch and carries the base KPI block computed from the input.
C3_ReportHasIdentityAndBaseKpis ==
    /\ (req.endpoint = "daily" /\ "formatted_comment" \in DOMAIN analysis_result) =>
          DailyHasIdentityAndBaseKpis(req.body.d, analysis_result.formatted_comment)
    /\ (req.endpoint = "weekly" /\ "formatted_comment" \in DOMAIN analysis_result
          /\ req.body.t = "list" /\ req.body.items # <<>>) =>
          WeeklyHasIdentityAndBaseKpis(req.body, analysis_result.formatted_comment)
    /\ (fn # NoFn /\ fn.op = "consolidated" /\ fn.pc = "done" /\ fn.campaigns # <<>>
          /\ ~fn.out.raised) =>
          ConsolidatedHasIdentityAndBaseKpis(fn.campaigns, fn.out.value.formatted_comment)

\* C4: on both POST endpoints a failed delivery is answered 502 with the
\* provider's error detail in the body.
C4_DeliveryFailureIs502 ==
    (Done /\ IsPost /\ DeliveryReturned /\ ~result.success) =>
        /\ response.status = 502
        /\ response.body.error = result.error

\* C5: within one request the comment-creation call is issued at most once,
\* whatever its outcome, and only after the analysis produced the
\* formatted_comment it carries.
C5_SingleDeliveryAfterAnalysis ==
    /\ Cardinality(ClickupCalls) <= 1
    /\ \A i \in ClickupCalls :
          /\ GenReturned /\ i > 1
          /\ "formatted_comment" \in DOMAIN analysis_result
          /\ calls[i].comment_text = analysis_result.formatted_comment

C5_Witness ==
    /\ Done /\ IsPost /\ DeliveryReturned /\ ~result.success
    /\ calls[Len(calls)].outcome = [k |-> "raise", exc |-> "TimeoutExpired"]
    /\ Cardinality(ClickupCalls) = 1

\* C6: send_clickup_comment returns success, with the comment identifier,
\* exactly when the provider reports the comment created; for every other
\* outcome it returns failure with the provider's error detail.
C6_SuccessIffProviderCreated ==
    DeliveryReturned =>
        /\ result.success <=> ProviderCreated(calls[Len(calls)].outcome)
        /\ result.success => "comment_id" \in DOMAIN result
        /\ ~result.success => "error" \in DOMAIN result

\* C7: on both POST endpoints a request (with a JSON body) for a slug that is
\* not configured is answered 400 with the list of configured slugs.
C7_UnknownSlugIs400WithList ==
    (Done /\ IsPost /\ ~Configured /\ req.body # InvalidJson) =>
        /\ response.status = 400
        /\ "available_clients" \in DOMAIN response.body
        /\ response.body.available_clients = DOMAIN client_mapping

\* a body that is not JSON, or JSON of the wrong shape for its endpoint
\* (daily: not an object; weekly: neither an array nor an object)
Malformed(endpoint, body) ==
    \/ body = InvalidJson
    \/ endpoint = "daily" /\ body.t # "dict"
    \/ endpoint = "weekly" /\ body.t \notin {"list", "dict"}

\* C8: a request whose body is unparseable or of the wrong shape is answered
\* 400 at once, with no generative-text call, no delivery call and
\* received_data left as it was.
C8_MalformedBodyIs400NoProcessing ==
    (IsPost /\ req.pc # "idle" /\ Malformed(req.endpoint, req.body)) =>
        /\ Done
        /\ response.status = 400
        /\ calls = <<>>
        /\ received_data = req.received_before

\* receive_weekly_data run to its response on body, with the given outcomes
\* of the two external calls
WeeklyRun(slug, body, gen, proc) ==
    IF body = InvalidJson THEN [response |-> WeeklyFault("JSONDecodeError"), comment |-> NoneV]
    ELSE IF slug \notin DOMAIN client_mapping
    THEN [response |-> [status |-> 400, body |-> [error |-> "Client not configured"]], comment |-> NoneV]
    ELSE IF WeeklyRaisesBeforeCall(body)
    THEN [response |-> WeeklyFault("AttributeError or TypeError"), comment |-> NoneV]
    ELSE LET ar == analyze_weekly_metrics(body, gen)
         IN  IF ar.raised THEN [response |-> WeeklyFault(ar.exc), comment |-> NoneV]
             ELSE [response |-> WeeklyRespond(slug, client_mapping[slug].weekly_task_id,
                                              send_clickup_comment(proc)),
                   comment |-> ar.value.formatted_comment]

\* C9: on the weekly endpoint a body that is one record object is processed
\* as the one-element array holding it: same report, same HTTP outcome.
C9_SingleObjectAsOneElementArray ==
    (Done /\ req.endpoint = "weekly" /\ Configured /\ req.body.t = "dict") =>
        \E gen \in GenOutcomes, proc \in ProcOutcomes :
            /\ GenReturned => calls[1].outcome = gen
            /\ DeliveryReturned => calls[2].outcome = proc
            /\ response = WeeklyRun(req.slug, ListV(<<req.body>>), gen, proc).response
            /\ "formatted_comment" \in DOMAIN analysis_result =>
                  analysis_result.formatted_comment
                    = WeeklyRun(req.slug, ListV(<<req.body>>), gen, proc).comment

-----------------------------------------------------------------------------
(* Objective inference, applied to bounded inputs *)


InferNames ==
    { NoneV, Str(<<>>), Str(N_EngPerfil), Str(N_VendasLink),
      Str(<<"L","e","a","d"," ","W","h","a","t","s">>),
      Str(<<"t","r","á","f","e","g","o">>), Str(<<"P","r","o","m","o">>), Num(700) }

InferObjectives ==
    { NoneV, Str(<<>>), Str(<<"e","n","g","a","g","e","m","e","n","t">>),
      Str(<<" ","T","r","a","f","f","i","c"," ">>), Str(<<"b","r","a","n","d">>), Str(<<" "," ">>), Num(100) }

InferResults ==
    { NoneV, DictV(EmptyDict),
      DictV(("leads" :> Num(700))),
      DictV(("purchases" :> Num(200)) @@ ("link_clicks" :> Num(1900))),
      DictV(("follows" :> Num(300))),
      DictV(("video_views" :> Num(300))),
      ListV(<<Num(100)>>) }

InitInfer ==
    /\ received_data = NoStore
    /\ client_mapping = ("snob-motel" :> [daily_task_id |-> "86ae5nt15",
                                          weekly_task_id |-> "86ae5nt1d",
                                          account_name |-> "CA - Snob Motel"])
    /\ req = IdleReq
    /\ analysis_result = NoResult
    /\ result = NoResult
    /\ calls = <<>>
    /\ response = NoResponse
    /\ \E name \in InferNames, objective \in InferObjectives, results \in InferResults :
          fn = [op |-> "build_daily_prompt", pc |-> "call",
                data |-> ("campaign_name" :> name) @@ ("objective" :> objective)
                         @@ ("results" :> results),
                out |-> Pending]

\* build_daily_prompt(data) is applied
ApplyBuildDailyPrompt ==
    /\ fn.op = "build_daily_prompt" /\ fn.pc = "call"
    /\ fn' = [fn EXCEPT !.pc = "done", !.out = build_daily_prompt(fn.data)]
    /\ UNCHANGED <<received_data, client_mapping, req, analysis_result, result, calls, response>>

NextInfer == ApplyBuildDailyPrompt

SpecInfer == InitInfer /\ [][NextInfer]_vars

PromptBuilt == fn.op = "build_daily_prompt" /\ fn.pc = "done" /\ ~fn.out.raise

\* C10: whenever objective_field is non-empty, the tag _infer_objective
\* returns is objective_field in upper case, whatever the campaign name and
\* the results hold, and also when it is not one of the known tags.
C10_ObjectiveFieldWins ==
    (PromptBuilt /\ fn.out.prompt.objective_field # <<>>) =>
        fn.out.prompt.inferred_obj = Upper(fn.out.prompt.objective_field)

C10_Witness ==
    /\ PromptBuilt
    /\ fn.out.prompt.objective_field = <<"b","r","a","n","d">>
    /\ fn.data["campaign_name"] = Str(N_VendasLink)
    /\ fn.data["results"] = DictV(("leads" :> Num(700)))
    /\ fn.out.prompt.inferred_obj = <<"B","R","A","N","D">>

\* the tags in the stated priority, each with its name tokens and result keys
ObjectiveGroups ==
    << [tag |-> T_CONVERSIONS, tokens |-> NameTokens_CONVERSIONS, keys |-> ResultKeys_CONVERSIONS],
       [tag |-> T_MESSAGES, tokens |-> NameTokens_MESSAGES, keys |-> ResultKeys_MESSAGES],
       [tag |-> T_TRAFFIC, tokens |-> NameTokens_TRAFFIC, keys |-> ResultKeys_TRAFFIC],
       [tag |-> T_LEADS, tokens |-> NameTokens_LEADS, keys |-> ResultKeys_LEADS],
       [tag |-> T_ENGAGEMENT, tokens |-> NameTokens_ENGAGEMENT, keys |-> ResultKeys_ENGAGEMENT] >>

\* the groups a campaign name matches, whatever its letter case, and the
\* groups a results value has a key of
NameMatches(campaign_name) ==
    { i \in DOMAIN ObjectiveGroups :
        /\ campaign_name.t = "str"
        /\ \E tk \in ObjectiveGroups[i].tokens : Contains(Upper(campaign_name.s), tk) }
KeyMatches(results) ==
    { i \in DOMAIN ObjectiveGroups :
        /\ results.t = "dict"
        /\ ObjectiveGroups[i].keys \cap DOMAIN results.d # {} }
First(S) == CHOOSE i \in S : \A j \in S : i <= j

\* C11: with an empty objective_field the tag is that of the first group, in
\* the order CONVERSIONS, MESSAGES, TRAFFIC, LEADS, ENGAGEMENT, that has a
\* token in the campaign name (letter case ignored); if no group has, that of
\* the first group with a key in results; if none has, UNKNOWN.  The tag is
\* one of the six, and "[ENGAJAMENTO] [PERFIL]" gives ENGAGEMENT.
C11_FirstMatchInPriorityOrder ==
    (PromptBuilt /\ fn.out.prompt.objective_field = <<>>) =>
        /\ fn.out.prompt.inferred_obj
             = IF NameMatches(fn.data["campaign_name"]) # {}
               THEN ObjectiveGroups[First(NameMatches(fn.data["campaign_name"]))].tag
               ELSE IF KeyMatches(fn.data["results"]) # {}
               THEN ObjectiveGroups[First(KeyMatches(fn.data["results"]))].tag
               ELSE T_UNKNOWN
        /\ fn.out.prompt.inferred_obj
             \in {T_CONVERSIONS, T_MESSAGES, T_TRAFFIC, T_LEADS, T_ENGAGEMENT, T_UNKNOWN}
        /\ fn.data["campaign_name"] = Str(N_EngPerfil) => fn.out.prompt.inferred_obj = T_ENGAGEMENT

\* a lower-case name with tokens of two groups and results of a third
C11_Witness ==
    /\ PromptBuilt /\ fn.out.prompt.objective_field = <<>>
    /\ fn.data["campaign_name"] = Str(N_VendasLink)
    /\ fn.data["results"] = DictV(("leads" :> Num(700)))
    /\ fn.out.prompt.inferred_obj = T_CONVERSIONS

\* the consolidated call returned its report
ConsolidatedDone ==
    /\ fn # NoFn /\ fn.op = "consolidated" /\ fn.pc = "done"
    /\ ~fn.out.raised /\ fn.out.value.success

\* conversion_value / spend when both are positive, else 0
RoasRule(spend, conversion_value) ==
    IF spend <= 0 \/ conversion_value <= 0 THEN Ratio(0, 1) ELSE Ratio(conversion_value, spend)

\* C12: _compute_roas returns 0 whenever spend <= 0 or conversion_value <= 0
\* and conversion_value / spend otherwise, with a divisor that is never zero;
\* the ROAS line of the consolidated summary prints that rule's value for the
\* batch totals.
C12_RoasRule ==
    /\ (fn # NoFn /\ fn.op = "_compute_roas") =>
          /\ fn.out.den # 0
          /\ fn.out = RoasRule(fn.spend, fn.conversion_value)
          /\ (fn.spend <= 0 \/ fn.conversion_value <= 0) => fn.out.num = 0
    /\ (ConsolidatedDone /\ "total_roas" \in DOMAIN fn.out.value.formatted_comment["summary"]) =>
          fn.out.value.formatted_comment["summary"]["total_roas"]
            = FmtRatio2f(RoasRule(Cents(FloatSum(FloatOf(0), PayloadCampaigns(fn.payload.d).items, "spend")),
                                  Cents(FloatSum(FloatOf(0), PayloadCampaigns(fn.payload.d).items,
                                                 "conversion_value"))))

\* a positive conversion_value over a zero spend
C12_Witness ==
    /\ fn # NoFn /\ fn.op = "_compute_roas"
    /\ fn.spend = 0 /\ fn.conversion_value = 5000 /\ fn.out = Ratio(0, 1)

\* the totals of the weekly analysis of a list
TotalsDone == fn # NoFn /\ fn.op = "weekly_totals"

\* data_list in the order perm
Reordered(data_list, perm) == [i \in 1..Len(data_list) |-> data_list[perm[i]]]

\* C13: the weekly aggregation does not depend on the order of the records:
\* every permutation of a list has the same total_spend, total_impressions,
\* total_clicks, average_ctr and weighted average CPC as the list
C13_WeeklyTotalsOrderIndependent ==
    TotalsDone =>
        \A perm \in Permutations(1..Len(fn.data_list)) :
            /\ WeeklyAggregates(ListV(Reordered(fn.data_list, perm))).total_spend = fn.out.total_spend
            /\ WeeklyAggregates(ListV(Reordered(fn.data_list, perm))).total_impressions
                   = fn.out.total_impressions
            /\ WeeklyAggregates(ListV(Reordered(fn.data_list, perm))).total_clicks = fn.out.total_clicks
            /\ WeeklyAggregates(ListV(Reordered(fn.data_list, perm))).avg_ctr = fn.out.avg_ctr
            /\ WeeklyAggregates(ListV(Reordered(fn.data_list, perm))).avg_cpc = fn.out.avg_cpc

\* a weekly request with a configured slug whose body is a list of records
WeeklyBatchRequest ==
    /\ req.pc # "idle" /\ req.endpoint = "weekly" /\ Configured
    /\ req.body.t = "list"
    /\ \A i \in 1..Len(req.body.items) : req.body.items[i].t = "dict"

\* C14: resolve_week_range ignores the records whose report_date is absent or
\* does not parse (another format, a timestamp, a value that is not a string)
\* and does not raise; the period is from the least to the greatest parsed
\* date, and the "not informed" sentinel exactly when no date parses.
C14_WeekRangeIgnoresUnparseable ==
    WeeklyBatchRequest =>
        /\ calls # <<>>
        /\ (GenReturned /\ ~GenFailed(calls[1].outcome)) =>
              /\ analysis_result.formatted_comment["header"] = PeriodNotInformed
                    <=> ParsedDates(req.body.items) = {}
              /\ analysis_result.formatted_comment["header"] # PeriodNotInformed =>
                    \E a \in ParsedDates(req.body.items), b \in ParsedDates(req.body.items) :
                        /\ analysis_result.formatted_comment["header"].start = FormatDate(a)
                        /\ analysis_result.formatted_comment["header"].end = FormatDate(b)
                        /\ \A c \in ParsedDates(req.body.items) :
                               DateKey(a) <= DateKey(c) /\ DateKey(c) <= DateKey(b)

\* the daily analysis of a record returned its metrics
DailyMetricsReturned ==
    /\ req.endpoint = "daily" /\ req.body.t = "dict"
    /\ "metrics" \in DOMAIN analysis_result

\* a field the Normalizer has to default: the key is missing, or its value
\* is null, a string that is no number, a boolean or a list
ToDefault(data, f) ==
    \/ f \notin DOMAIN data
    \/ data[f].t \in {"none", "bool", "list"}
    \/ data[f].t = "str" /\ ~ParseFloat(data[f].s).ok

\* C15: the Normalizer leaves every numeric field defined, and a field whose
\* key is missing or whose value is null, a non-numeric string, a boolean or
\* a list is the default 0.
C15_NormalizerDefaultsToZero ==
    DailyMetricsReturned =>
        \A f \in {"spend", "impressions", "clicks", "ctr", "cpc"} :
            /\ f \in DOMAIN analysis_result.metrics
            /\ analysis_result.metrics[f] \in Int
            /\ ToDefault(req.body.d, f) => analysis_result.metrics[f] = 0

\* the consolidated analysis of a non-empty list of well-formed campaign
\* records, under a payload whose report_date is absent or a string, is over
ConsolidatedOfRecordsOver ==
    /\ fn # NoFn /\ fn.op = "consolidated" /\ fn.pc = "done"
    /\ fn.payload.t = "dict"
    /\ ~resolve_report_dates(fn.payload.d).raise
    /\ PayloadCampaigns(fn.payload.d).t = "list"
    /\ PayloadCampaigns(fn.payload.d).items # <<>>
    /\ \A k \in 1..Len(PayloadCampaigns(fn.payload.d).items) :
           WellFormedRecord(PayloadCampaigns(fn.payload.d).items[k])

\* block is the block of campaign c, with the text of a call that ended as gen
BlockIsOf(block, c, gen) ==
    /\ block["name"] = Get(c, "campaign_name", Str(NoName))
    /\ block["kpi_base"].spend = Fmt2f(_safe_float(Get(c, "spend", Num(0))))
    /\ block["kpi_base"].impressions = FmtInt(_safe_int(Get(c, "impressions", Num(0))))
    /\ block["kpi_click"].clicks = FmtInt(_safe_int(Get(c, "clicks", Num(0))))
    /\ block["analysis"] = IF GenFailed(gen) THEN ConsolidatedFallbackText ELSE AnalysisText(gen)

\* C16: the consolidated analysis of n >= 1 campaigns returns a comment with
\* the summary block followed by n campaign blocks, the k-th built from the
\* k-th campaign, whichever of the generative-text calls failed; a failed
\* call changes the analysis text of its own block only.
C16_OneBlockPerCampaignInOrder ==
    ConsolidatedOfRecordsOver =>
        /\ ~fn.out.raised /\ fn.out.value.success
        /\ "summary" \in DOMAIN fn.out.value.formatted_comment
        /\ Len(fn.out.value.formatted_comment["blocks"]) = Len(PayloadCampaigns(fn.payload.d).items)
        /\ Len(fn.gens) = Len(PayloadCampaigns(fn.payload.d).items)
        /\ \A k \in 1..Len(PayloadCampaigns(fn.payload.d).items) :
               BlockIsOf(fn.out.value.formatted_comment["blocks"][k],
                         PayloadCampaigns(fn.payload.d).items[k].d, fn.gens[k])

\* two different campaigns, the call of the first failed, that of the second
\* returned
C16_Witness ==
    /\ ConsolidatedOfRecordsOver
    /\ PayloadCampaigns(fn.payload.d).items = <<DictV(R_full), DictV(R_num)>>
    /\ GenFailed(fn.gens[1]) /\ ~GenFailed(fn.gens[2])
    /\ fn.out.value.formatted_comment["blocks"][1]["analysis"] = ConsolidatedFallbackText
    /\ fn.out.value.formatted_comment["blocks"][2]["name"] = Str(N_VendasLink)

\* C17: no request writes process-wide state that another request observes:
\* CLIENT_TASK_MAPPING stays as it was at startup, a request leaves every other
\* module-level object as it found it, and the answer to a request is the one
\* a process that served no request before would give.
C17_NoCrossRequestState ==
    /\ client_mapping = ("snob-motel" :> [daily_task_id |-> "86ae5nt15",
                                          weekly_task_id |-> "86ae5nt1d",
                                          account_name |-> "CA - Snob Motel"])
    /\ req.pc # "idle" => received_data = req.received_before
    /\ (Done /\ req.endpoint = "data") => response.status = 404
    /\ (Done /\ req.endpoint = "status") => response.body.received_data_count = 0

====
